---- MODULE Spec2Model ----
(***************************************************************************)
(* A state-machine model of tornado's IOStream (src/iostream.py): the      *)
(* stream object's fields, the io_loop's callback queue, and the socket    *)
(* as the kernel presents it (bytes waiting to be received, room in the    *)
(* send buffer, EOF, error, connection progress).                          *)
(*                                                                         *)
(* Every method of IOStream is an operator over a record w holding all the *)
(* fields; w.ret is the method's return value and w.exc the exception it   *)
(* raises ("None" when it returns normally).  An action applies one public *)
(* operation, one io_loop event dispatch or one queued callback to the     *)
(* current state and commits the resulting record.                         *)
(***************************************************************************)
EXTENDS Integers, Sequences, FiniteSets, TLC

(***************************************************************************)
(* Bounds of the model.                                                    *)
(***************************************************************************)
MaxRecv == 3        \* bytes the peer sends in total
MaxSeg == 2         \* longest segment that arrives at once
MaxWritten == 3     \* bytes passed to write() in total
MaxCallbacks == 3   \* callbacks the application passes in total
MaxSpace == 2       \* room the kernel's send buffer can offer

(***************************************************************************)
(* Program constants, scaled down so that the bounds above reach them.     *)
(***************************************************************************)
max_buffer_size == 3            \* 104857600 in the source
read_chunk_size == 2            \* 4096 in the source
WRITE_BUFFER_CHUNK_SIZE == 2    \* 128 * 1024 in the source

Bytes == {0, 1}
\* Delimiters the application asks for: one byte, and two bytes that may
\* straddle two chunks.
Delimiters == {<<1>>, <<0, 1>>}
\* Regular expressions the application asks for, as the ordered list of
\* their literal alternatives: "1", and "01|1".
Regexes == {<<<<1>>>>, <<<<0, 1>>, <<1>>>>}

READ == "READ"
WRITE == "WRITE"
ERROR == "ERROR"

(***************************************************************************)
(* Python's None-able values: None is <<>>, a present value v is <<v>>.    *)
(***************************************************************************)
None == <<>>
Some(v) == <<v>>
Val(o) == o[1]

VARIABLES
    \* --- IOStream fields (src/iostream.py:29-61)
    socket,               \* "sock", "ssl" (wrapped for SSL) or "None"
    _read_buffer,
    _write_buffer,
    _read_buffer_size,
    _write_buffer_frozen,
    _read_delimiter,
    _read_regex,
    _read_bytes,
    _read_until_close,
    _read_callback,
    _streaming_callback,
    _write_callback,
    _close_callback,
    _connect_callback,
    _connecting,
    _state,
    _pending_callbacks,
    \* --- SSLIOStream fields (src/iostream.py:468-479)
    ssl,                  \* the stream is an SSLIOStream
    _ssl_accepting,
    _handshake_reading,
    _handshake_writing,
    _ssl_connect_callback,
    \* --- the io_loop: what was passed to add_callback and has not run yet
    queue,
    turn,                 \* how many of them it runs before it polls again
    \* --- the socket as the kernel presents it
    net_conn,             \* "unconnected", "connecting", "connected", "failed"
    net_in,               \* segments waiting to be received
    net_eof,              \* the peer has sent FIN after net_in
    net_err,              \* a socket error is pending (connection reset)
    net_space,            \* bytes the send buffer accepts now
    \* --- history
    wire,                 \* bytes send() has accepted, in order
    recvd,                \* bytes recv() has returned, in order
    delivered,            \* bytes handed to callbacks, in order, each with
                          \* the kind and number of the callback it went to
    nwritten,             \* bytes passed to write() so far
    ncbs,                 \* how many callbacks of each kind were passed in
    scheduled,            \* the callbacks that were scheduled
    twice,                \* the callbacks that were scheduled more than once
    last                  \* the last step: operation and exception raised

vars == <<socket, _read_buffer, _write_buffer, _read_buffer_size,
          _write_buffer_frozen, _read_delimiter, _read_regex, _read_bytes,
          _read_until_close, _read_callback, _streaming_callback,
          _write_callback, _close_callback, _connect_callback, _connecting,
          _state, _pending_callbacks, ssl, _ssl_accepting,
          _handshake_reading, _handshake_writing, _ssl_connect_callback,
          queue, turn, net_conn, net_in,
          net_eof, net_err, net_space, wire, recvd, delivered, nwritten, ncbs,
          scheduled, twice, last>>

ssl_vars == <<ssl, _ssl_accepting, _handshake_reading, _handshake_writing,
              _ssl_connect_callback>>

(***************************************************************************)
(* Byte strings and chunk deques.                                          *)
(***************************************************************************)
Min(a, b) == IF a <= b THEN a ELSE b
Max(a, b) == IF a >= b THEN a ELSE b

\* s[:n] and s[n:]
Take(s, n) == SubSeq(s, 1, Min(n, Len(s)))
Drop(s, n) == SubSeq(s, Min(n, Len(s)) + 1, Len(s))

\* "".join(chunks)
RECURSIVE Flatten(_)
Flatten(chunks) ==
    IF chunks = <<>> THEN <<>> ELSE Head(chunks) \o Flatten(Tail(chunks))

\* str.find: the lowest 0-based index at which d occurs in s, or -1
RECURSIVE FindFrom(_, _, _)
FindFrom(s, d, i) ==
    IF i + Len(d) > Len(s) THEN -1
    ELSE IF SubSeq(s, i + 1, i + Len(d)) = d THEN i
    ELSE FindFrom(s, d, i + 1)

find(s, d) == FindFrom(s, d, 0)

\* The first alternative of regex rx that matches s at 0-based index i, as
\* the match's end, or -1.
RECURSIVE MatchAt(_, _, _)
MatchAt(s, rx, i) ==
    IF rx = <<>> THEN -1
    ELSE IF /\ i + Len(Head(rx)) <= Len(s)
            /\ SubSeq(s, i + 1, i + Len(Head(rx))) = Head(rx)
         THEN i + Len(Head(rx))
         ELSE MatchAt(s, Tail(rx), i)

\* regex.search(s): the end of the leftmost match (m.end()), or -1
RECURSIVE SearchFrom(_, _, _)
SearchFrom(s, rx, i) ==
    IF i > Len(s) THEN -1
    ELSE IF MatchAt(s, rx, i) # -1 THEN MatchAt(s, rx, i)
    ELSE SearchFrom(s, rx, i + 1)

search(s, rx) == SearchFrom(s, rx, 0)

\* The while loop of _merge_prefix: <<deque, prefix>> when it ends.
RECURSIVE MergeLoop(_, _, _)
MergeLoop(deque, prefix, remaining) ==
    IF deque # <<>> /\ remaining > 0
    THEN LET chunk == Head(deque)
             rest == Tail(deque)
         IN IF Len(chunk) > remaining
            THEN MergeLoop(<<Drop(chunk, remaining)>> \o rest,
                           Append(prefix, Take(chunk, remaining)), 0)
            ELSE MergeLoop(rest, Append(prefix, chunk), remaining - Len(chunk))
    ELSE <<deque, prefix>>

\* A defect: the early return does not look at the number of chunks.
_merge_prefix_lazy(deque, size) ==
    IF deque # <<>> /\ Len(deque[1]) <= size THEN deque
    ELSE LET r == MergeLoop(deque, <<>>, size)
             d1 == IF r[2] # <<>> THEN <<Flatten(r[2])>> \o r[1] ELSE r[1]
         IN IF d1 = <<>> THEN <<<<>>>> ELSE d1

_merge_prefix(deque, size) ==
    IF Len(deque) = 1 /\ Len(deque[1]) <= size THEN deque
    ELSE LET r == MergeLoop(deque, <<>>, size)
             d1 == IF r[2] # <<>> THEN <<Flatten(r[2])>> \o r[1] ELSE r[1]
         IN IF d1 = <<>> THEN <<<<>>>> ELSE d1

_double_prefix(deque) ==
    _merge_prefix(deque, Max(Len(deque[1]) * 2, Len(deque[1]) + Len(deque[2])))

(***************************************************************************)
(* The state as one record, and the step that commits a record.            *)
(***************************************************************************)
cur ==
    [socket |-> socket, _read_buffer |-> _read_buffer,
     _write_buffer |-> _write_buffer, _read_buffer_size |-> _read_buffer_size,
     _write_buffer_frozen |-> _write_buffer_frozen,
     _read_delimiter |-> _read_delimiter, _read_regex |-> _read_regex,
     _read_bytes |-> _read_bytes, _read_until_close |-> _read_until_close,
     _read_callback |-> _read_callback,
     _streaming_callback |-> _streaming_callback,
     _write_callback |-> _write_callback, _close_callback |-> _close_callback,
     _connect_callback |-> _connect_callback, _connecting |-> _connecting,
     _state |-> _state, _pending_callbacks |-> _pending_callbacks,
     ssl |-> ssl, _ssl_accepting |-> _ssl_accepting,
     _handshake_reading |-> _handshake_reading,
     _handshake_writing |-> _handshake_writing,
     _ssl_connect_callback |-> _ssl_connect_callback,
     queue |-> queue, net_conn |-> net_conn, net_in |-> net_in,
     net_eof |-> net_eof, net_err |-> net_err, net_space |-> net_space,
     wire |-> wire, recvd |-> recvd, delivered |-> delivered,
     scheduled |-> scheduled, twice |-> twice,
     hs |-> <<>>, ret |-> None, exc |-> "None"]

Commit(w) ==
    /\ socket' = w.socket
    /\ _read_buffer' = w._read_buffer
    /\ _write_buffer' = w._write_buffer
    /\ _read_buffer_size' = w._read_buffer_size
    /\ _write_buffer_frozen' = w._write_buffer_frozen
    /\ _read_delimiter' = w._read_delimiter
    /\ _read_regex' = w._read_regex
    /\ _read_bytes' = w._read_bytes
    /\ _read_until_close' = w._read_until_close
    /\ _read_callback' = w._read_callback
    /\ _streaming_callback' = w._streaming_callback
    /\ _write_callback' = w._write_callback
    /\ _close_callback' = w._close_callback
    /\ _connect_callback' = w._connect_callback
    /\ _connecting' = w._connecting
    /\ _state' = w._state
    /\ _pending_callbacks' = w._pending_callbacks
    /\ ssl' = w.ssl
    /\ _ssl_accepting' = w._ssl_accepting
    /\ _handshake_reading' = w._handshake_reading
    /\ _handshake_writing' = w._handshake_writing
    /\ _ssl_connect_callback' = w._ssl_connect_callback
    /\ queue' = w.queue
    /\ delivered' = w.delivered
    /\ scheduled' = w.scheduled
    /\ twice' = w.twice
    /\ net_conn' = w.net_conn
    /\ net_in' = w.net_in
    /\ net_eof' = w.net_eof
    /\ net_err' = w.net_err
    /\ net_space' = w.net_space
    /\ wire' = w.wire
    /\ recvd' = w.recvd

\* raise e / return v / return
Raise(w, e) == [w EXCEPT !.exc = e, !.ret = None]
Return(w, v) == [w EXCEPT !.ret = Some(v)]
Caught(w) == [w EXCEPT !.exc = "None"]

(***************************************************************************)
(* Callback scheduling and close.                                          *)
(***************************************************************************)
\* LET x == e IN F(x), with e evaluated once however often F uses x.
Let(e, F(_)) == CHOOSE y \in {F(x) : x \in {e}} : TRUE

\* io_loop.add_callback(self.close)
NoCallback == [kind |-> "", n |-> 0, arg |-> <<>>]

add_callback_close(w) ==
    [w EXCEPT !.queue = Append(@, [fn |-> "close", cb |-> NoCallback,
                                   args |-> <<>>])]

\* _run_callback: count the callback as pending and hand its wrapper to the
\* io_loop; the wrapper itself is the action RunCallback.
_run_callback(w, callback, args) ==
    [w EXCEPT !._pending_callbacks = @ + 1,
              !.queue = Append(@, [fn |-> "wrapper", cb |-> callback,
                                   args |-> args]),
              !.scheduled = @ \cup {callback},
              !.twice = IF callback \in w.scheduled
                           /\ callback.kind # "streaming"
                        THEN @ \cup {callback} ELSE @,
              !.delivered = @ \o [i \in 1..Len(Flatten(args)) |->
                                      <<Flatten(args)[i], callback.kind,
                                        callback.n>>]]

\* A defect: the size counter is left as it was.
_consume_uncounted(w, loc) ==
    IF loc = 0 THEN Return(w, <<>>)
    ELSE Let(_merge_prefix(w._read_buffer, loc), LAMBDA merged :
             Return([w EXCEPT !._read_buffer = Tail(merged)], Head(merged)))

_consume(w, loc) ==
    IF loc = 0 THEN Return(w, <<>>)
    ELSE Let(_merge_prefix(w._read_buffer, loc), LAMBDA merged :
             Return([w EXCEPT !._read_buffer = Tail(merged),
                              !._read_buffer_size = @ - loc],
                    Head(merged)))

\* A defect: the close callback stays installed after it is scheduled.
_maybe_run_close_callback_kept(w) ==
    IF /\ w.socket = "None"
       /\ w._close_callback # None
       /\ w._pending_callbacks = 0
    THEN _run_callback(w, Val(w._close_callback), <<>>)
    ELSE w

_maybe_run_close_callback(w) ==
    IF /\ w.socket = "None"
       /\ w._close_callback # None
       /\ w._pending_callbacks = 0
    THEN _run_callback([w EXCEPT !._close_callback = None],
                       Val(w._close_callback), <<>>)
    ELSE w

\* A defect: close forgets the until-close read.
close_undrained(w) ==
    IF w.socket # "None"
    THEN _maybe_run_close_callback(
             [w EXCEPT !._state = None, !.socket = "None"])
    ELSE _maybe_run_close_callback(w)

\* A defect: close hands the buffer to the until-close callback and keeps
\* it.
close_kept(w) ==
    IF w.socket # "None"
    THEN Let(IF w._read_until_close
             THEN _run_callback([w EXCEPT !._read_callback = None,
                                          !._read_until_close = FALSE],
                                Val(w._read_callback),
                                <<Flatten(w._read_buffer)>>)
             ELSE w,
             LAMBDA w2 : _maybe_run_close_callback(
                             [w2 EXCEPT !._state = None, !.socket = "None"]))
    ELSE _maybe_run_close_callback(w)

\* close().  self.error (set here from sys.exc_info()) is only ever written:
\* nothing in the stream reads it, and it is not part of the state.
close(w) ==
    IF w.socket # "None"
    THEN Let(IF w._read_until_close
             THEN Let(_consume([w EXCEPT !._read_callback = None,
                                         !._read_until_close = FALSE],
                               w._read_buffer_size),
                      LAMBDA c : _run_callback(c, Val(w._read_callback),
                                               <<Val(c.ret)>>))
             ELSE w,
             LAMBDA w2 : _maybe_run_close_callback(
                             [w2 EXCEPT !._state = None, !.socket = "None"]))
    ELSE _maybe_run_close_callback(w)

\* A defect: the closed test is dropped.
_check_closed_never(w) == w

_check_closed(w) ==
    IF w.socket = "None" THEN Raise(w, "IOError") ELSE w

\* A defect: the first registration leaves ERROR out.
_add_io_state_bare(w, state) ==
    IF w.socket = "None" THEN w
    ELSE IF w._state = None
         THEN [w EXCEPT !._state = Some({state})]
    ELSE IF state \notin Val(w._state)
         THEN [w EXCEPT !._state = Some(Val(@) \cup {state})]
    ELSE w

_add_io_state(w, state) ==
    IF w.socket = "None" THEN w
    ELSE IF w._state = None
         THEN [w EXCEPT !._state = Some({ERROR, state})]
    ELSE IF state \notin Val(w._state)
         THEN [w EXCEPT !._state = Some(Val(@) \cup {state})]
    ELSE w

_maybe_add_error_listener(w) ==
    IF w._state = None /\ w._pending_callbacks = 0
    THEN IF w.socket = "None" THEN _maybe_run_close_callback(w)
         ELSE _add_io_state(w, READ)
    ELSE w

(***************************************************************************)
(* The socket.                                                             *)
(***************************************************************************)
\* socket.recv(read_chunk_size): ret is the chunk, <<>> at EOF; raises
\* "EWOULDBLOCK" when nothing waits or the connection is still being made,
\* "socket.error" on any other failure (reset, not connected, refused).
\* self.socket is None on a closed stream: an AttributeError.
recv(w) ==
    IF w.socket = "None" THEN Raise(w, "AttributeError")
    ELSE IF w.net_err \/ w.net_conn \in {"unconnected", "failed"}
         THEN Raise(w, "socket.error")
    ELSE IF w.net_conn = "connecting" THEN Raise(w, "EWOULDBLOCK")
    ELSE IF w.net_in = <<>>
         THEN IF w.net_eof THEN Return(w, <<>>) ELSE Raise(w, "EWOULDBLOCK")
    ELSE LET seg == Head(w.net_in)
             chunk == Take(seg, read_chunk_size)
             left == Drop(seg, read_chunk_size)
         IN Return([w EXCEPT !.net_in = IF left = <<>> THEN Tail(@)
                                        ELSE <<left>> \o Tail(@),
                             !.recvd = @ \o chunk],
                   chunk)

\* socket.send(data): ret is the number of bytes accepted.  With no room
\* left the socket either returns 0 (blocked = "zero", as an SSL socket
\* does) or raises EWOULDBLOCK.
send(w, data, blocked) ==
    IF w.socket = "None" THEN Raise(w, "AttributeError")
    ELSE IF w.net_err \/ w.net_conn \in {"unconnected", "failed"}
         THEN Raise(w, "socket.error")
    ELSE IF w.net_conn = "connecting" THEN Raise(w, "EWOULDBLOCK")
    ELSE IF w.net_space = 0 \/ data = <<>>
         THEN IF blocked = "zero" \/ data = <<>> THEN Return(w, 0)
              ELSE Raise(w, "EWOULDBLOCK")
    ELSE LET n == Min(Len(data), w.net_space)
         IN Return([w EXCEPT !.net_space = @ - n,
                             !.wire = @ \o Take(data, n)],
                   n)

\* socket.getsockopt(SOL_SOCKET, SO_ERROR) is nonzero
so_error(w) == w.net_err \/ w.net_conn = "failed"

(***************************************************************************)
(* The read engine.                                                        *)
(***************************************************************************)
_read_from_socket(w) ==
    Let(recv(w), LAMBDA r :
        IF r.exc = "EWOULDBLOCK" THEN [Caught(r) EXCEPT !.ret = None]
        ELSE IF r.exc # "None" THEN r
        ELSE IF Val(r.ret) = <<>> THEN [close(r) EXCEPT !.ret = None]
        ELSE r)

\* A defect: the socket is read before the handshake is finished.
SSLIOStream_read_from_socket_early(w) == _read_from_socket(w)

\* SSLIOStream._read_from_socket: nothing is read while the handshake is
\* not finished; after it, socket.read gives what recv gives (WANT_READ for
\* would-block, an SSLError being a socket.error).
SSLIOStream_read_from_socket(w) ==
    IF w._ssl_accepting THEN [w EXCEPT !.ret = None]
    ELSE _read_from_socket(w)

\* self._read_from_socket()
self_read_from_socket(w) ==
    IF w.ssl THEN SSLIOStream_read_from_socket(w) ELSE _read_from_socket(w)

\* A defect: a buffer of exactly max_buffer_size bytes is let through.
_read_to_buffer_over(w) ==
    Let(self_read_from_socket(w), LAMBDA r :
        IF r.exc = "socket.error" THEN Raise(close(r), "socket.error")
        ELSE IF r.exc # "None" THEN r
        ELSE IF r.ret = None THEN Return(r, 0)
        ELSE Let([r EXCEPT !._read_buffer = Append(@, Val(r.ret)),
                           !._read_buffer_size = @ + Len(Val(r.ret))],
                 LAMBDA w1 :
                     IF w1._read_buffer_size > max_buffer_size
                     THEN Raise(close(w1), "IOError")
                     ELSE Return(w1, Len(Val(r.ret)))))

_read_to_buffer(w) ==
    Let(self_read_from_socket(w), LAMBDA r :
        IF r.exc = "socket.error" THEN Raise(close(r), "socket.error")
        ELSE IF r.exc # "None" THEN r
        ELSE IF r.ret = None THEN Return(r, 0)
        ELSE Let([r EXCEPT !._read_buffer = Append(@, Val(r.ret)),
                           !._read_buffer_size = @ + Len(Val(r.ret))],
                 LAMBDA w1 :
                     IF w1._read_buffer_size >= max_buffer_size
                     THEN Raise(close(w1), "IOError")
                     ELSE Return(w1, Len(Val(r.ret)))))

\* while True: if self._read_to_buffer() == 0: break
\* (with self._check_closed() after each read when check is TRUE)
RECURSIVE ReadLoop(_, _)
ReadLoop(w, check) ==
    Let(_read_to_buffer(w), LAMBDA r :
        IF r.exc # "None" THEN r
        ELSE IF Val(r.ret) = 0 THEN r
        ELSE IF check /\ _check_closed(r).exc # "None" THEN _check_closed(r)
        ELSE ReadLoop(r, check))

\* The while loop of the until-delimiter branch of _read_from_buffer.
RECURSIVE DelimiterLoop(_)
\* A defect: the payload stops where the delimiter starts.
DelimiterLoop_short(w) ==
    Let(find(w._read_buffer[1], Val(w._read_delimiter)), LAMBDA loc :
        IF loc # -1
        THEN Let(_consume([w EXCEPT !._read_callback = None,
                                    !._streaming_callback = None,
                                    !._read_delimiter = None],
                          loc),
                 LAMBDA c : Return(_run_callback(c, Val(w._read_callback),
                                                 <<Val(c.ret)>>),
                                   TRUE))
        ELSE IF Len(w._read_buffer) = 1 THEN Return(w, FALSE)
        ELSE Let([w EXCEPT !._read_buffer = _double_prefix(@)],
                 LAMBDA w1 : DelimiterLoop(w1)))

DelimiterLoop(w) ==
    Let(find(w._read_buffer[1], Val(w._read_delimiter)), LAMBDA loc :
        IF loc # -1
        THEN Let(_consume([w EXCEPT !._read_callback = None,
                                    !._streaming_callback = None,
                                    !._read_delimiter = None],
                          loc + Len(Val(w._read_delimiter))),
                 LAMBDA c : Return(_run_callback(c, Val(w._read_callback),
                                                 <<Val(c.ret)>>),
                                   TRUE))
        ELSE IF Len(w._read_buffer) = 1 THEN Return(w, FALSE)
        ELSE Let([w EXCEPT !._read_buffer = _double_prefix(@)],
                 LAMBDA w1 : DelimiterLoop(w1)))

\* The while loop of the until-regex branch of _read_from_buffer.
RECURSIVE RegexLoop(_)
RegexLoop(w) ==
    Let(search(w._read_buffer[1], Val(w._read_regex)), LAMBDA end :
        IF end # -1
        THEN Let(_consume([w EXCEPT !._read_callback = None,
                                    !._streaming_callback = None,
                                    !._read_regex = None],
                          end),
                 LAMBDA c : Return(_run_callback(c, Val(w._read_callback),
                                                 <<Val(c.ret)>>),
                                   TRUE))
        ELSE IF Len(w._read_buffer) = 1 THEN Return(w, FALSE)
        ELSE Let([w EXCEPT !._read_buffer = _double_prefix(@)],
                 LAMBDA w1 : RegexLoop(w1)))

\* A defect: the bytes streamed are not taken off the number asked for.
Streamed_uncounted(w) ==
    IF w._streaming_callback # None /\ w._read_buffer_size # 0
    THEN Let(_consume(w, IF w._read_bytes # None
                         THEN Min(Val(w._read_bytes), w._read_buffer_size)
                         ELSE w._read_buffer_size),
             LAMBDA c : _run_callback(c, Val(w._streaming_callback),
                                      <<Val(c.ret)>>))
    ELSE w

\* The first step of _read_from_buffer: hand what is buffered (at most the
\* bytes still asked for) to the streaming callback.
Streamed(w) ==
    IF w._streaming_callback # None /\ w._read_buffer_size # 0
    THEN LET bytes_to_consume ==
                 IF w._read_bytes # None
                 THEN Min(Val(w._read_bytes), w._read_buffer_size)
                 ELSE w._read_buffer_size
             wb == IF w._read_bytes # None
                   THEN [w EXCEPT !._read_bytes =
                                      Some(Val(@) - bytes_to_consume)]
                   ELSE w
         IN Let(_consume(wb, bytes_to_consume),
                LAMBDA c : _run_callback(c, Val(w._streaming_callback),
                                         <<Val(c.ret)>>))
    ELSE w

_read_from_buffer(w) ==
    Let(Streamed(w), LAMBDA w1 :
        IF w1._read_bytes # None /\ w1._read_buffer_size >= Val(w1._read_bytes)
        THEN Let(_consume([w1 EXCEPT !._read_callback = None,
                                     !._streaming_callback = None,
                                     !._read_bytes = None],
                          Val(w1._read_bytes)),
                 LAMBDA c : Return(_run_callback(c, Val(w1._read_callback),
                                                 <<Val(c.ret)>>),
                                   TRUE))
        ELSE IF w1._read_delimiter # None
             THEN IF w1._read_buffer # <<>> THEN DelimiterLoop(w1)
                  ELSE Return(w1, FALSE)
        ELSE IF w1._read_regex # None
             THEN IF w1._read_buffer # <<>> THEN RegexLoop(w1)
                  ELSE Return(w1, FALSE)
        ELSE Return(w1, FALSE))

\* A defect: the socket drain does not count as a pending callback.
_handle_read_unguarded(w) ==
    Let(ReadLoop(w, FALSE), LAMBDA f :
        IF f.exc # "None" THEN Caught(close(f))
        ELSE Let(_read_from_buffer(f), LAMBDA b :
                 IF Val(b.ret) THEN b ELSE _maybe_run_close_callback(b)))

_handle_read(w) ==
    Let(ReadLoop([w EXCEPT !._pending_callbacks = @ + 1], FALSE), LAMBDA r :
    Let([r EXCEPT !._pending_callbacks = @ - 1], LAMBDA f :
        IF f.exc # "None" THEN Caught(close(f))
        ELSE Let(_read_from_buffer(f), LAMBDA b :
                 IF Val(b.ret) THEN b ELSE _maybe_run_close_callback(b))))

\* A defect: a second read replaces the one that is pending.
_set_read_callback_over(w, callback) ==
    [w EXCEPT !._read_callback = Some(callback)]

_set_read_callback(w, callback) ==
    IF w._read_callback # None THEN Raise(w, "AssertionError")
    ELSE [w EXCEPT !._read_callback = Some(callback)]

\* A defect: the closed test comes before the look at the read buffer.
_try_inline_read_closed(w) ==
    IF _check_closed(w).exc # "None" THEN _check_closed(w)
    ELSE Let(_read_from_buffer(w), LAMBDA b1 :
        IF Val(b1.ret) THEN b1
        ELSE Let(ReadLoop([b1 EXCEPT !._pending_callbacks = @ + 1], TRUE),
                 LAMBDA r :
             Let([r EXCEPT !._pending_callbacks = @ - 1], LAMBDA f :
                 IF f.exc # "None" THEN f
                 ELSE Let(_read_from_buffer(f), LAMBDA b2 :
                          IF Val(b2.ret) THEN b2
                          ELSE _maybe_add_error_listener(b2)))))

_try_inline_read(w) ==
    Let(_read_from_buffer(w), LAMBDA b1 :
        IF Val(b1.ret) THEN b1
        ELSE IF _check_closed(b1).exc # "None" THEN _check_closed(b1)
        ELSE Let(ReadLoop([b1 EXCEPT !._pending_callbacks = @ + 1], TRUE),
                 LAMBDA r :
             Let([r EXCEPT !._pending_callbacks = @ - 1], LAMBDA f :
                 IF f.exc # "None" THEN f
                 ELSE Let(_read_from_buffer(f), LAMBDA b2 :
                          IF Val(b2.ret) THEN b2
                          ELSE _maybe_add_error_listener(b2)))))

(***************************************************************************)
(* The write engine and connect.                                           *)
(***************************************************************************)
\* The while loop of _handle_write; ret is FALSE when the loop ended in
\* "return" (after a write error closed the stream), TRUE otherwise.
RECURSIVE WriteLoop(_, _)
\* A defect: the chunks are merged before every send, frozen or not.
WriteLoop_merging(w, blocked) ==
    IF w._write_buffer = <<>> THEN Return(w, TRUE)
    ELSE Let([w EXCEPT !._write_buffer =
                           _merge_prefix(@, WRITE_BUFFER_CHUNK_SIZE)],
             LAMBDA w1 :
         Let(send(w1, w1._write_buffer[1], blocked), LAMBDA r :
             IF r.exc = "EWOULDBLOCK"
             THEN Return([Caught(r) EXCEPT !._write_buffer_frozen = TRUE], TRUE)
             ELSE IF r.exc = "socket.error"
             THEN Return(Caught(close(r)), FALSE)
             ELSE IF r.exc # "None" THEN r
             ELSE IF Val(r.ret) = 0
             THEN Return([r EXCEPT !._write_buffer_frozen = TRUE], TRUE)
             ELSE Let([r EXCEPT !._write_buffer_frozen = FALSE,
                                !._write_buffer =
                                    Tail(_merge_prefix(@, Val(r.ret)))],
                      LAMBDA w2 : WriteLoop(w2, blocked))))

WriteLoop(w, blocked) ==
    IF w._write_buffer = <<>> THEN Return(w, TRUE)
    ELSE Let(IF ~w._write_buffer_frozen
             THEN [w EXCEPT !._write_buffer =
                                _merge_prefix(@, WRITE_BUFFER_CHUNK_SIZE)]
             ELSE w,
             LAMBDA w1 :
         Let(send(w1, w1._write_buffer[1], blocked), LAMBDA r :
             IF r.exc = "EWOULDBLOCK"
             THEN Return([Caught(r) EXCEPT !._write_buffer_frozen = TRUE], TRUE)
             ELSE IF r.exc = "socket.error"
             THEN Return(Caught(close(r)), FALSE)
             ELSE IF r.exc # "None" THEN r
             ELSE IF Val(r.ret) = 0
             THEN Return([r EXCEPT !._write_buffer_frozen = TRUE], TRUE)
             ELSE Let([r EXCEPT !._write_buffer_frozen = FALSE,
                                !._write_buffer =
                                    Tail(_merge_prefix(@, Val(r.ret)))],
                      LAMBDA w2 : WriteLoop(w2, blocked))))

\* A defect: the write callback is scheduled without looking at the buffer.
_handle_write_early(w, blocked) ==
    Let(WriteLoop(w, blocked), LAMBDA r :
        IF r.exc # "None" THEN r
        ELSE IF ~Val(r.ret) THEN r
        ELSE IF r._write_callback # None
        THEN _run_callback([r EXCEPT !._write_callback = None],
                           Val(r._write_callback), <<>>)
        ELSE r)

_handle_write(w, blocked) ==
    Let(WriteLoop(w, blocked), LAMBDA r :
        IF r.exc # "None" THEN r
        ELSE IF ~Val(r.ret) THEN r
        ELSE IF r._write_buffer = <<>> /\ r._write_callback # None
        THEN _run_callback([r EXCEPT !._write_callback = None],
                           Val(r._write_callback), <<>>)
        ELSE r)

\* A defect: the socket's error is not looked at.
_handle_connect_unchecked(w) ==
    IF w._connect_callback # None
    THEN [_run_callback([w EXCEPT !._connect_callback = None],
                        Val(w._connect_callback), <<>>)
             EXCEPT !._connecting = FALSE]
    ELSE [w EXCEPT !._connecting = FALSE]

_handle_connect(w) ==
    IF so_error(w)
    THEN close(w)
    ELSE IF w._connect_callback # None
    THEN [_run_callback([w EXCEPT !._connect_callback = None],
                        Val(w._connect_callback), <<>>)
             EXCEPT !._connecting = FALSE]
    ELSE [w EXCEPT !._connecting = FALSE]

(***************************************************************************)
(* SSLIOStream: the handshake and the methods it overrides.                *)
(***************************************************************************)
\* What socket.do_handshake() can do: succeed; ask for the socket to be
\* readable or writable; fail in a way that closes the stream ("EOF": the
\* SSL errors EOF, ZERO_RETURN and SSL, and the socket errors ECONNABORTED
\* and ECONNRESET); raise another SSLError; raise another socket error.
Handshakes == {"ok", "WANT_READ", "WANT_WRITE", "EOF", "SSLError",
               "socket.error"}

\* A defect: a handshake that has to wait counts as finished.
_do_ssl_handshake_hasty(w) ==
    Let([w EXCEPT !._handshake_reading = FALSE,
                  !._handshake_writing = FALSE,
                  !.hs = Tail(@)],
        LAMBDA w1 :
        IF w.socket # "ssl" THEN Raise(w1, "AttributeError")
        ELSE IF Head(w.hs) = "WANT_READ"
        THEN [w1 EXCEPT !._handshake_reading = TRUE, !._ssl_accepting = FALSE]
        ELSE IF Head(w.hs) = "WANT_WRITE"
        THEN [w1 EXCEPT !._handshake_writing = TRUE, !._ssl_accepting = FALSE]
        ELSE IF Head(w.hs) = "EOF" THEN close(w1)
        ELSE IF Head(w.hs) = "SSLError" THEN Raise(w1, "ssl.SSLError")
        ELSE IF Head(w.hs) = "socket.error" THEN w1
        ELSE Let([w1 EXCEPT !._ssl_accepting = FALSE], LAMBDA a :
                 IF a._ssl_connect_callback # None
                 THEN _run_callback([a EXCEPT !._ssl_connect_callback = None],
                                    Val(a._ssl_connect_callback), <<>>)
                 ELSE a))

\* _do_ssl_handshake; w.hs[1] is what this call of do_handshake does.  On a
\* closed stream self.socket is None, and before _handle_connect it is a
\* socket not yet wrapped, which has no do_handshake: an AttributeError.
_do_ssl_handshake(w) ==
    Let([w EXCEPT !._handshake_reading = FALSE,
                  !._handshake_writing = FALSE,
                  !.hs = Tail(@)],
        LAMBDA w1 :
        IF w.socket # "ssl" THEN Raise(w1, "AttributeError")
        ELSE IF Head(w.hs) = "WANT_READ"
        THEN [w1 EXCEPT !._handshake_reading = TRUE]
        ELSE IF Head(w.hs) = "WANT_WRITE"
        THEN [w1 EXCEPT !._handshake_writing = TRUE]
        ELSE IF Head(w.hs) = "EOF" THEN close(w1)
        ELSE IF Head(w.hs) = "SSLError" THEN Raise(w1, "ssl.SSLError")
        ELSE IF Head(w.hs) = "socket.error" THEN w1
        ELSE Let([w1 EXCEPT !._ssl_accepting = FALSE], LAMBDA a :
                 IF a._ssl_connect_callback # None
                 THEN _run_callback([a EXCEPT !._ssl_connect_callback = None],
                                    Val(a._ssl_connect_callback), <<>>)
                 ELSE a))

SSLIOStream_handle_read(w) ==
    IF w._ssl_accepting THEN _do_ssl_handshake(w) ELSE _handle_read(w)

SSLIOStream_handle_write(w, blocked) ==
    IF w._ssl_accepting THEN _do_ssl_handshake(w)
    ELSE _handle_write(w, blocked)

\* SSLIOStream._handle_connect: wraps the socket for SSL and goes on as
\* IOStream does.
SSLIOStream_handle_connect(w) == _handle_connect([w EXCEPT !.socket = "ssl"])

\* self._handle_read(), self._handle_write(), self._handle_connect()
self_handle_read(w) ==
    IF w.ssl THEN SSLIOStream_handle_read(w) ELSE _handle_read(w)

self_handle_write(w, blocked) ==
    IF w.ssl THEN SSLIOStream_handle_write(w, blocked)
    ELSE _handle_write(w, blocked)

self_handle_connect(w) ==
    IF w.ssl THEN SSLIOStream_handle_connect(w) ELSE _handle_connect(w)

\* Splitting of data into WRITE_BUFFER_CHUNK_SIZE pieces, as write() does.
RECURSIVE Pieces(_)
\* A defect: only the first piece of a long string is queued.
Pieces_first(data) == <<Take(data, WRITE_BUFFER_CHUNK_SIZE)>>

Pieces(data) ==
    IF data = <<>> THEN <<>>
    ELSE <<Take(data, WRITE_BUFFER_CHUNK_SIZE)>>
             \o Pieces(Drop(data, WRITE_BUFFER_CHUNK_SIZE))

\* write(data, callback): callback is None or Some(id)
write(w, data, callback, blocked) ==
    IF _check_closed(w).exc # "None" THEN _check_closed(w)
    ELSE Let([w EXCEPT !._write_buffer =
                           IF data = <<>> THEN @
                           ELSE IF Len(data) > WRITE_BUFFER_CHUNK_SIZE
                           THEN @ \o Pieces(data)
                           ELSE Append(@, data),
                       !._write_callback = callback],
             LAMBDA w2 :
                 IF ~w2._connecting
                 THEN Let(self_handle_write(w2, blocked), LAMBDA h :
                          IF h.exc # "None" THEN h
                          ELSE IF h._write_buffer # <<>>
                          THEN Let(_add_io_state(h, WRITE),
                                   LAMBDA a : _maybe_add_error_listener(a))
                          ELSE _maybe_add_error_listener(h))
                 ELSE w2)

\* connect(address, callback); outcome is what socket.connect does:
\* "EINPROGRESS", "ok" (connected at once) or "error".
connect(w, callback, outcome) ==
    IF outcome = "error"
    THEN close([w EXCEPT !._connecting = TRUE, !.net_conn = "failed"])
    ELSE _add_io_state(
             [w EXCEPT !._connecting = TRUE,
                       !.net_conn = IF outcome = "ok" THEN "connected"
                                    ELSE "connecting",
                       !._connect_callback = callback],
             WRITE)

\* SSLIOStream.connect keeps the callback for the end of the handshake.
SSLIOStream_connect(w, callback, outcome) ==
    connect([w EXCEPT !._ssl_connect_callback = callback], None, outcome)

\* stream.connect(address, callback)
self_connect(w, callback, outcome) ==
    IF w.ssl THEN SSLIOStream_connect(w, callback, outcome)
    ELSE connect(w, callback, outcome)

(***************************************************************************)
(* The event dispatcher.                                                   *)
(***************************************************************************)
reading(w) == w._read_callback # None
writing(w) == w._write_buffer # <<>>
closed(w) == w.socket = "None"

SSLIOStream_reading(w) == w._handshake_reading \/ reading(w)
SSLIOStream_writing(w) == w._handshake_writing \/ writing(w)

\* self.reading(), self.writing()
self_reading(w) == IF w.ssl THEN SSLIOStream_reading(w) ELSE reading(w)
self_writing(w) == IF w.ssl THEN SSLIOStream_writing(w) ELSE writing(w)

\* A defect: READ is not registered when nothing else is.
Reregistered_bare(h) ==
    LET state == {ERROR}
                   \cup (IF self_reading(h) THEN {READ} ELSE {})
                   \cup (IF self_writing(h) THEN {WRITE} ELSE {})
    IN IF Some(state) # h._state
       THEN IF h._state = None
            THEN Raise(h, "AssertionError")
            ELSE [h EXCEPT !._state = Some(state)]
       ELSE h

\* The end of the try block of _handle_events: the events to register.
Reregistered(h) ==
    LET state == {ERROR}
                   \cup (IF self_reading(h) THEN {READ} ELSE {})
                   \cup (IF self_writing(h) THEN {WRITE} ELSE {})
        state2 == IF state = {ERROR} THEN {ERROR, READ} ELSE state
    IN IF Some(state2) # h._state
       THEN IF h._state = None
            THEN Raise(h, "AssertionError")
            ELSE [h EXCEPT !._state = Some(state2)]
       ELSE h

\* A defect: an ERROR event closes the stream at once.
HandleEventsBody_abrupt(w, events, blocked) ==
    Let(IF READ \in events THEN self_handle_read(w) ELSE w, LAMBDA r :
        IF r.exc # "None" \/ r.socket = "None" THEN r
        ELSE Let(IF WRITE \in events /\ r._connecting
                 THEN self_handle_connect(r) ELSE r,
                 LAMBDA c :
             Let(IF WRITE \in events THEN self_handle_write(c, blocked) ELSE c,
                 LAMBDA h :
                 IF h.exc # "None" \/ h.socket = "None" THEN h
                 ELSE IF ERROR \in events THEN close(h)
                 ELSE Reregistered(h))))

\* The try block of _handle_events.
HandleEventsBody(w, events, blocked) ==
    Let(IF READ \in events THEN self_handle_read(w) ELSE w, LAMBDA r :
        IF r.exc # "None" \/ r.socket = "None" THEN r
        ELSE Let(IF WRITE \in events /\ r._connecting
                 THEN self_handle_connect(r) ELSE r,
                 LAMBDA c :
             Let(IF WRITE \in events THEN self_handle_write(c, blocked) ELSE c,
                 LAMBDA h :
                 IF h.exc # "None" \/ h.socket = "None" THEN h
                 ELSE IF ERROR \in events THEN add_callback_close(h)
                 ELSE Reregistered(h))))

_handle_events(w, events, blocked) ==
    IF w.socket = "None" THEN w
    ELSE Let(HandleEventsBody(w, events, blocked), LAMBDA r :
             IF r.exc # "None" THEN Raise(close(r), r.exc) ELSE r)

(***************************************************************************)
(* Initial state: a stream just constructed around a socket that is either *)
(* already connected (accepted by a server) or not yet connected.          *)
(***************************************************************************)
Kinds == {"connect", "read_until_regex", "read_until", "read_bytes",
          "read_until_close", "streaming", "write", "close"}

Init ==
    /\ socket = "sock"
    /\ _read_buffer = <<>>
    /\ _write_buffer = <<>>
    /\ _read_buffer_size = 0
    /\ _write_buffer_frozen = FALSE
    /\ _read_delimiter = None
    /\ _read_regex = None
    /\ _read_bytes = None
    /\ _read_until_close = FALSE
    /\ _read_callback = None
    /\ _streaming_callback = None
    /\ _write_callback = None
    /\ _close_callback = None
    /\ _connect_callback = None
    /\ _connecting = FALSE
    /\ _state = None
    /\ _pending_callbacks = 0
    /\ ssl = FALSE
    /\ _ssl_accepting = FALSE
    /\ _handshake_reading = FALSE
    /\ _handshake_writing = FALSE
    /\ _ssl_connect_callback = None
    /\ queue = <<>>
    /\ turn = 0
    /\ net_conn \in {"connected", "unconnected"}
    /\ net_in = <<>>
    /\ net_eof = FALSE
    /\ net_err = FALSE
    /\ net_space = MaxSpace
    /\ wire = <<>>
    /\ recvd = <<>>
    /\ delivered = <<>>
    /\ nwritten = 0
    /\ ncbs = [k \in Kinds |-> 0]
    /\ scheduled = {}
    /\ twice = {}
    /\ last = [op |-> "__init__", exc |-> "None"]

\* One step of the program: operation op took the state to w, having been
\* passed one callback of each kind in new.
Step(op, w, new) ==
    /\ \E v \in {w} : Commit(v) /\ last' = [op |-> op, exc |-> v.exc]
    /\ ncbs' = [k \in Kinds |-> IF k \in new THEN ncbs[k] + 1 ELSE ncbs[k]]

\* A callback the application passes in: the n-th of its kind, with what
\* it was passed for.
Callback(kind, arg) == [kind |-> kind, n |-> ncbs[kind] + 1, arg |-> arg]

\* The application may pass k more callbacks.
MayPass(k) ==
    ncbs["connect"] + ncbs["read_until_regex"] + ncbs["read_until"]
        + ncbs["read_bytes"] + ncbs["read_until_close"] + ncbs["streaming"]
        + ncbs["write"] + ncbs["close"] + k <= MaxCallbacks

\* The bytes the peer has sent so far.
narrived == Len(recvd) + Len(Flatten(net_in))

Segments == UNION {[1..n -> Bytes] : n \in 1..MaxSeg}
Blocked == {"zero", "EWOULDBLOCK"}

\* What the next n calls of do_handshake do.  Only a stream in its
\* handshake calls it; on a socket that is not connected it fails.
HandshakeResults(n) ==
    IF ssl /\ _ssl_accepting
    THEN [1..n -> IF net_conn = "connected" THEN Handshakes
                  ELSE {"SSLError", "socket.error"}]
    ELSE {<<>>}

(***************************************************************************)
(* The peer and the kernel.                                                *)
(***************************************************************************)
NetArrive ==
    \E seg \in Segments :
        /\ socket # "None" /\ net_conn = "connected"
        /\ ~net_eof /\ ~net_err
        /\ narrived + Len(seg) <= MaxRecv
        /\ net_in' = Append(net_in, seg)
        /\ UNCHANGED <<ssl_vars, socket, _read_buffer, _write_buffer,
                       _read_buffer_size, _write_buffer_frozen, _read_delimiter,
                       _read_regex, _read_bytes, _read_until_close,
                       _read_callback, _streaming_callback, _write_callback,
                       _close_callback, _connect_callback, _connecting, _state,
                       _pending_callbacks, queue, turn, net_conn, net_eof, net_err,
                       net_space, wire, recvd, delivered, nwritten, ncbs,
                       scheduled, twice>>
        /\ last' = [op |-> "NetArrive", exc |-> "None"]

NetEof ==
    /\ socket # "None" /\ net_conn = "connected"
    /\ ~net_eof /\ ~net_err
    /\ net_eof' = TRUE
    /\ UNCHANGED <<ssl_vars, socket, _read_buffer, _write_buffer,
                   _read_buffer_size, _write_buffer_frozen, _read_delimiter,
                   _read_regex, _read_bytes, _read_until_close, _read_callback,
                   _streaming_callback, _write_callback, _close_callback,
                   _connect_callback, _connecting, _state, _pending_callbacks,
                   queue, turn, net_conn, net_in, net_err, net_space, wire, recvd,
                   delivered, nwritten, ncbs,
                       scheduled, twice>>
    /\ last' = [op |-> "NetEof", exc |-> "None"]

NetReset ==
    /\ socket # "None" /\ net_conn = "connected"
    /\ ~net_err
    /\ net_err' = TRUE
    /\ UNCHANGED <<ssl_vars, socket, _read_buffer, _write_buffer,
                   _read_buffer_size, _write_buffer_frozen, _read_delimiter,
                   _read_regex, _read_bytes, _read_until_close, _read_callback,
                   _streaming_callback, _write_callback, _close_callback,
                   _connect_callback, _connecting, _state, _pending_callbacks,
                   queue, turn, net_conn, net_in, net_eof, net_space, wire, recvd,
                   delivered, nwritten, ncbs,
                       scheduled, twice>>
    /\ last' = [op |-> "NetReset", exc |-> "None"]

NetRoom ==
    /\ socket # "None" /\ net_conn = "connected"
    /\ net_space < MaxSpace
    /\ net_space' = MaxSpace
    /\ UNCHANGED <<ssl_vars, socket, _read_buffer, _write_buffer,
                   _read_buffer_size, _write_buffer_frozen, _read_delimiter,
                   _read_regex, _read_bytes, _read_until_close, _read_callback,
                   _streaming_callback, _write_callback, _close_callback,
                   _connect_callback, _connecting, _state, _pending_callbacks,
                   queue, turn, net_conn, net_in, net_eof, net_err, wire, recvd,
                   delivered, nwritten, ncbs,
                       scheduled, twice>>
    /\ last' = [op |-> "NetRoom", exc |-> "None"]

NetConnected ==
    \E how \in {"connected", "failed"} :
        /\ socket # "None" /\ net_conn = "connecting"
        /\ net_conn' = how
        /\ UNCHANGED <<ssl_vars, socket, _read_buffer, _write_buffer,
                       _read_buffer_size, _write_buffer_frozen, _read_delimiter,
                       _read_regex, _read_bytes, _read_until_close,
                       _read_callback, _streaming_callback, _write_callback,
                       _close_callback, _connect_callback, _connecting, _state,
                       _pending_callbacks, queue, turn, net_in, net_eof, net_err,
                       net_space, wire, recvd, delivered, nwritten, ncbs,
                       scheduled, twice>>
        /\ last' = [op |-> "NetConnected", exc |-> "None"]

(***************************************************************************)
(* The application's calls.                                                *)
(***************************************************************************)
Connect ==
    \E withcb \in BOOLEAN, outcome \in {"EINPROGRESS", "ok", "error"} :
        /\ socket # "None" /\ net_conn = "unconnected" /\ ~_connecting
        /\ MayPass(IF withcb THEN 1 ELSE 0)
        /\ \E c \in {cur} :
               Step("connect",
                    self_connect(c, IF withcb
                                    THEN Some(Callback("connect", <<>>))
                                    ELSE None, outcome),
                    IF withcb THEN {"connect"} ELSE {})
        /\ UNCHANGED <<nwritten, turn>>

ReadUntilRegex ==
    \E regex \in Regexes :
        /\ MayPass(1)
        /\ \E s \in {_set_read_callback(cur,
                                         Callback("read_until_regex", regex))} :
              Step("read_until_regex",
                   IF s.exc # "None" THEN s
                   ELSE _try_inline_read([s EXCEPT !._read_regex = Some(regex)]),
                   {"read_until_regex"})
        /\ UNCHANGED <<nwritten, turn>>

ReadUntil ==
    \E delimiter \in Delimiters :
        /\ MayPass(1)
        /\ \E s \in {_set_read_callback(cur,
                                         Callback("read_until", <<delimiter>>))} :
              Step("read_until",
                   IF s.exc # "None" THEN s
                   ELSE _try_inline_read(
                            [s EXCEPT !._read_delimiter = Some(delimiter)]),
                   {"read_until"})
        /\ UNCHANGED <<nwritten, turn>>

\* What a read_bytes or read_until_close callback was passed for: the
\* number of bytes asked for (none for read_until_close), the number of the
\* streaming callback that came with it (0 for none), and how many bytes
\* had been delivered to callbacks before.
ReadArg(num, streaming) ==
    <<num, <<IF streaming THEN ncbs["streaming"] + 1 ELSE 0>>,
      <<Len(delivered)>>>>

ReadBytes ==
    \E num_bytes \in 0..MaxRecv, streaming \in BOOLEAN :
        /\ MayPass(IF streaming THEN 2 ELSE 1)
        /\ \E arg \in {ReadArg(<<num_bytes>>, streaming)} :
           \E s \in {_set_read_callback(cur, Callback("read_bytes", arg))} :
              Step("read_bytes",
                   IF s.exc # "None" THEN s
                   ELSE _try_inline_read(
                            [s EXCEPT !._read_bytes = Some(num_bytes),
                                      !._streaming_callback =
                                          IF streaming
                                          THEN Some(Callback("streaming", arg))
                                          ELSE None]),
                   {"read_bytes"} \cup (IF streaming THEN {"streaming"} ELSE {}))
        /\ UNCHANGED <<nwritten, turn>>

\* read_until_close after its first line, _set_read_callback.
read_until_close(w, streaming_callback) ==
    Let([w EXCEPT !._streaming_callback = streaming_callback], LAMBDA s :
        IF closed(s)
        THEN Let(IF s._streaming_callback # None
                 THEN Let(_consume(s, s._read_buffer_size),
                          LAMBDA c : _run_callback(c,
                                                   Val(s._streaming_callback),
                                                   <<Val(c.ret)>>))
                 ELSE s,
                 LAMBDA w1 :
             Let(_consume(w1, w1._read_buffer_size), LAMBDA c2 :
                 [_run_callback(c2, Val(w1._read_callback), <<Val(c2.ret)>>)
                      EXCEPT !._streaming_callback = None,
                             !._read_callback = None, !.ret = None]))
        ELSE _add_io_state([s EXCEPT !._read_until_close = TRUE], READ))

ReadUntilClose ==
    \E streaming \in BOOLEAN :
        /\ MayPass(IF streaming THEN 2 ELSE 1)
        /\ \E arg \in {ReadArg(<<>>, streaming)} :
           \E s \in {_set_read_callback(cur,
                                         Callback("read_until_close", arg))} :
              Step("read_until_close",
                   IF s.exc # "None" THEN s
                   ELSE read_until_close(
                            s, IF streaming
                               THEN Some(Callback("streaming", arg))
                               ELSE None),
                   {"read_until_close"}
                       \cup (IF streaming THEN {"streaming"} ELSE {}))
        /\ UNCHANGED <<nwritten, turn>>

\* The bytes written are numbered in the order they are written, so that
\* any loss, duplication or reordering shows.
Fresh(n) == [i \in 1..n |-> nwritten + i]

Write ==
    \E n \in 0..MaxWritten, withcb \in BOOLEAN, blocked \in Blocked :
        /\ nwritten + n <= MaxWritten
        /\ MayPass(IF withcb THEN 1 ELSE 0)
        /\ \E hs \in HandshakeResults(1) :
           \E c \in {[cur EXCEPT !.hs = hs]} :
           \E w \in {write(c, Fresh(n),
                          IF withcb THEN Some(Callback("write", <<>>))
                          ELSE None, blocked)} :
              /\ Step("write", w, IF withcb THEN {"write"} ELSE {})
              /\ nwritten' = IF w.exc = "IOError" THEN nwritten
                             ELSE nwritten + n
        /\ UNCHANGED turn

set_close_callback(w, callback) ==
    [w EXCEPT !._close_callback = Some(callback)]

\* A close callback remembers whether the stream was open when it was set.
SetCloseCallback ==
    /\ MayPass(1)
    /\ Step("set_close_callback",
            set_close_callback(
                cur, Callback("close",
                              <<<<IF socket # "None" THEN 1 ELSE 0>>>>)),
            {"close"})
    /\ UNCHANGED <<nwritten, turn>>

Close ==
    /\ \E c \in {cur} : Step("close", close(c), {})
    /\ UNCHANGED <<nwritten, turn>>

(***************************************************************************)
(* The io_loop.                                                            *)
(***************************************************************************)
\* What the poller can report for the socket now.
Ready ==
    (IF net_in # <<>> \/ net_eof \/ net_err \/ net_conn = "failed"
        \/ (ssl /\ _ssl_accepting /\ net_conn = "connected")
     THEN {READ} ELSE {})
    \cup (IF (net_conn = "connected" /\ net_space > 0) \/ net_err
             \/ net_conn = "failed"
          THEN {WRITE} ELSE {})
    \cup (IF net_err \/ net_conn = "failed" THEN {ERROR} ELSE {})

\* One iteration of the io_loop runs the callbacks that are queued when it
\* starts, then polls and calls the handler registered for the socket with
\* the events that are both registered and ready.  So the handler is not
\* called in the middle of a batch of callbacks, and whatever is queued when
\* it returns runs before the next poll.
Dispatch(events, blocked) ==
    /\ _state # None
    /\ turn = 0
    /\ events # {}
    /\ events \subseteq (Val(_state) \cap Ready)
    /\ \E hs \in HandshakeResults(IF {READ, WRITE} \subseteq events
                                   THEN 2 ELSE 1) :
       \E c \in {[cur EXCEPT !.hs = hs]} :
       \E w \in {_handle_events(c, events, blocked)} :
          /\ Step("_handle_events", w, {})
          /\ turn' = Len(w.queue)
    /\ UNCHANGED nwritten

HandleEvents ==
    \E events \in SUBSET {READ, WRITE, ERROR}, blocked \in Blocked :
        Dispatch(events, blocked)

\* The wrapper of _run_callback, run by the io_loop; the user callback
\* returns, closes the stream and returns, or raises.
wrapper(w, behaviour) ==
    Let([w EXCEPT !._pending_callbacks = @ - 1], LAMBDA w1 :
        IF behaviour = "raise" THEN Raise(close(w1), "Exception")
        ELSE IF behaviour = "close"
        THEN Let(close(w1), LAMBDA c : _maybe_add_error_listener(c))
        ELSE _maybe_add_error_listener(w1))

\* The io_loop runs the next queued callback: the bound method close, or a
\* wrapper.
RunCallback ==
    \E behaviour \in {"return", "close", "raise"} :
        /\ queue # <<>>
        /\ \E w \in {[cur EXCEPT !.queue = Tail(@)]} :
              IF Head(queue).fn = "close"
              THEN /\ behaviour = "return"
                   /\ Step("io_loop.close", close(w), {})
              ELSE Step("io_loop.callback", wrapper(w, behaviour), {})
        /\ turn' = IF turn = 0 THEN Len(queue) - 1 ELSE turn - 1
        /\ UNCHANGED nwritten

Next ==
    \/ NetArrive
    \/ NetEof
    \/ NetReset
    \/ NetRoom
    \/ NetConnected
    \/ Connect
    \/ ReadUntilRegex
    \/ ReadUntil
    \/ ReadBytes
    \/ ReadUntilClose
    \/ Write
    \/ SetCloseCallback
    \/ Close
    \/ HandleEvents
    \/ RunCallback

Spec == Init /\ [][Next]_vars

(***************************************************************************)
(* Specifications of parts of the program: a claim is checked where the    *)
(* operations it is about act.                                             *)
(***************************************************************************)
\* Connecting, writing and closing.
NextWrite ==
    \/ NetReset
    \/ NetRoom
    \/ NetConnected
    \/ Connect
    \/ Write
    \/ SetCloseCallback
    \/ Close
    \/ HandleEvents
    \/ RunCallback

SpecWrite == Init /\ [][NextWrite]_vars

\* The io_loop polls with everything that is registered and ready.
Poll ==
    /\ _state # None
    /\ \E events \in {Val(_state) \cap Ready}, blocked \in Blocked :
           Dispatch(events, blocked)

\* Writing with a loop that keeps running (it runs every queued callback
\* and keeps polling), a connection attempt that ends, and a peer that keeps
\* reading, so that the send buffer has room again.
NextDrain ==
    \/ NetRoom
    \/ NetConnected
    \/ Connect
    \/ Write
    \/ Close
    \/ HandleEvents
    \/ RunCallback

SpecDrain ==
    /\ Init /\ [][NextDrain]_vars
    /\ WF_vars(RunCallback)
    /\ WF_vars(Poll)
    /\ WF_vars(NetRoom)
    /\ WF_vars(NetConnected)

\* Reading from a connected stream: what the peer, the loop and the
\* application do around one kind of read.
InitConnected == Init /\ net_conn = "connected"

NextUntil ==
    \/ NetArrive
    \/ NetEof
    \/ NetReset
    \/ ReadUntil
    \/ Close
    \/ HandleEvents
    \/ RunCallback

SpecUntil == InitConnected /\ [][NextUntil]_vars

NextBytes ==
    \/ NetArrive
    \/ NetEof
    \/ NetReset
    \/ ReadBytes
    \/ Close
    \/ HandleEvents
    \/ RunCallback

SpecBytes == InitConnected /\ [][NextBytes]_vars

NextUntilClose ==
    \/ NetArrive
    \/ NetEof
    \/ NetReset
    \/ ReadUntilClose
    \/ Close
    \/ HandleEvents
    \/ RunCallback

SpecUntilClose == InitConnected /\ [][NextUntilClose]_vars

\* Every way a stream gets closed.  To keep the reachable states few, a
\* stream is used for connecting and writing or for reading, not both:
\* writes go to a stream that has read nothing, reads to one that has
\* written nothing.
NothingRead ==
    /\ recvd = <<>> /\ net_in = <<>> /\ ~net_eof
    /\ ncbs["read_until"] = 0 /\ ncbs["read_until_close"] = 0

NothingWritten ==
    /\ nwritten = 0 /\ ~_connecting
    /\ ncbs["write"] = 0 /\ ncbs["connect"] = 0

NextClose ==
    \/ NothingRead /\ Connect
    \/ NothingRead /\ NetConnected
    \/ NothingRead /\ NetRoom
    \/ NothingRead /\ Write
    \/ NothingWritten /\ NetArrive
    \/ NothingWritten /\ NetEof
    \/ NothingWritten /\ ReadUntil
    \/ NothingWritten /\ ReadUntilClose
    \/ NetReset
    \/ SetCloseCallback
    \/ Close
    \/ HandleEvents
    \/ RunCallback

SpecClose == Init /\ [][NextClose]_vars

\* Every kind of read on a connected stream.
NextRead ==
    \/ NetArrive
    \/ NetEof
    \/ ReadUntilRegex
    \/ ReadUntil
    \/ ReadBytes
    \/ ReadUntilClose
    \/ Close
    \/ HandleEvents
    \/ RunCallback

SpecRead == InitConnected /\ [][NextRead]_vars

\* Connecting, with a connection that may be reset, a loop that keeps
\* running and a connection attempt that ends.
NextConnect ==
    \/ NetReset
    \/ NetRoom
    \/ NetConnected
    \/ Connect
    \/ Write
    \/ Close
    \/ HandleEvents
    \/ RunCallback

SpecConnect ==
    /\ Init /\ [][NextConnect]_vars
    /\ WF_vars(RunCallback)
    /\ WF_vars(Poll)
    /\ WF_vars(NetConnected)

\* An SSLIOStream just constructed, around a connected socket wrapped for
\* SSL or around a socket that is yet to be connected.
InitSSL ==
    /\ socket \in {"sock", "ssl"}
    /\ _read_buffer = <<>>
    /\ _write_buffer = <<>>
    /\ _read_buffer_size = 0
    /\ _write_buffer_frozen = FALSE
    /\ _read_delimiter = None
    /\ _read_regex = None
    /\ _read_bytes = None
    /\ _read_until_close = FALSE
    /\ _read_callback = None
    /\ _streaming_callback = None
    /\ _write_callback = None
    /\ _close_callback = None
    /\ _connect_callback = None
    /\ _connecting = FALSE
    /\ _state = None
    /\ _pending_callbacks = 0
    /\ ssl = TRUE
    /\ _ssl_accepting = TRUE
    /\ _handshake_reading = FALSE
    /\ _handshake_writing = FALSE
    /\ _ssl_connect_callback = None
    /\ queue = <<>>
    /\ turn = 0
    /\ net_conn = IF socket = "ssl" THEN "connected" ELSE "unconnected"
    /\ net_in = <<>>
    /\ net_eof = FALSE
    /\ net_err = FALSE
    /\ net_space = MaxSpace
    /\ wire = <<>>
    /\ recvd = <<>>
    /\ delivered = <<>>
    /\ nwritten = 0
    /\ ncbs = [k \in Kinds |-> 0]
    /\ scheduled = {}
    /\ twice = {}
    /\ last = [op |-> "__init__", exc |-> "None"]

\* An SSLIOStream that connects, reads and writes.
NextSSL ==
    \/ NothingRead /\ Connect
    \/ NothingRead /\ NetConnected
    \/ NothingRead /\ NetRoom
    \/ NothingRead /\ Write
    \/ NothingWritten /\ NetArrive
    \/ NothingWritten /\ ReadUntil
    \/ Close
    \/ HandleEvents
    \/ RunCallback

SpecSSL == InitSSL /\ [][NextSSL]_vars

\* Reading and writing on one stream, for what is registered with the
\* io_loop; the peer sends two bytes at most.
NextMask ==
    \/ NetArrive /\ narrived' < MaxRecv
    \/ NetRoom
    \/ ReadUntil
    \/ Write
    \/ Close
    \/ HandleEvents
    \/ RunCallback

SpecMask == InitConnected /\ [][NextMask]_vars

(***************************************************************************)
(* Properties.                                                             *)
(***************************************************************************)
WriteCallback(n) == [kind |-> "write", n |-> n, arg |-> <<>>]
Queued(c) == \E i \in DOMAIN queue : queue[i].cb = c
Invoked(c) == c \in scheduled /\ ~Queued(c)

\* C1: the bytes the socket has accepted, followed by the chunks of the
\* write buffer in order, are the bytes passed to write, in call order,
\* whatever send returned (all, a part, 0, would-block).
C1_WriteOrder ==
    wire \o Flatten(_write_buffer) = [i \in 1..nwritten |-> i]

\* C1 happens: after several writes and a partial send, part of the data
\* is on the wire and the rest waits in a frozen buffer.
C1_Witness ==
    /\ socket # "None"
    /\ ncbs["write"] >= 2
    /\ nwritten = MaxWritten
    /\ wire # <<>>
    /\ _write_buffer # <<>>
    /\ _write_buffer_frozen

C2_ScheduledWhenDrained ==
    \A n \in 1..MaxCallbacks :
        (WriteCallback(n) \in scheduled' \ scheduled) =>
            /\ _write_buffer' = <<>>
            /\ \/ _write_callback = Some(WriteCallback(n))
               \/ last'.op = "write" /\ ncbs["write"] = n - 1
                     /\ ncbs'["write"] = n

\* A step that takes an installed write callback away: it schedules it, or
\* it is a later write, which replaces it.
C2_TakenAway ==
    \A n \in 1..MaxCallbacks :
        (_write_callback = Some(WriteCallback(n))
            /\ _write_callback' # _write_callback) =>
            \/ WriteCallback(n) \in scheduled' \ scheduled
            \/ last'.op = "write" /\ last'.exc = "None"

C10_WriteOnClosed ==
    [][(socket = "None" /\ last'.op = "write") =>
           /\ last'.exc = "IOError"
           /\ UNCHANGED <<_write_buffer, _write_callback, _state,
                          _pending_callbacks>>]_vars

\* C10 happens: a write was refused on a closed stream that still holds
\* unsent data and a write callback.
C10_Witness ==
    /\ socket = "None"
    /\ last = [op |-> "write", exc |-> "IOError"]
    /\ _write_buffer # <<>>
    /\ _write_callback # None

\* The bytes handed to callbacks so far, and those handed to callback c.
Payloads == [i \in 1..Len(delivered) |-> delivered[i][1]]
HandedTo(c, i) == delivered[i][2] = c.kind /\ delivered[i][3] = c.n

\* No byte received is lost, duplicated or reordered: what was handed to
\* callbacks, followed by the read buffer, is what recv returned.
Conserved == Payloads \o Flatten(_read_buffer) = recvd

\* The queue entries a step adds.
Added ==
    SubSeq(queue',
           IF last'.op \in {"io_loop.callback", "io_loop.close"}
           THEN Len(queue) ELSE Len(queue) + 1,
           Len(queue'))

\* C3: a read_until callback is scheduled at most once, with a payload that
\* ends with the delimiter and holds it nowhere else; the payloads and the
\* read buffer together are the bytes received, in order, so the payload is
\* the shortest prefix ending with the delimiter and the rest stays
\* buffered; and while the stream is open a pending read_until leaves no
\* delimiter unnoticed in the buffer.
C3_ReadUntil ==
    /\ \A i \in DOMAIN queue :
           queue[i].cb.kind = "read_until" =>
               LET d == queue[i].cb.arg[1]
                   payload == queue[i].args[1]
               IN /\ Len(payload) >= Len(d)
                  /\ find(payload, d) = Len(payload) - Len(d)
    /\ \A c \in twice : c.kind # "read_until"
    /\ Conserved
    /\ (socket # "None" /\ _read_delimiter # None) =>
           find(Flatten(_read_buffer), Val(_read_delimiter)) = -1

\* C3 happens: the delimiter came in two chunks, the callback is queued
\* with the bytes up to its end, and the byte after it is still buffered.
C3_Witness ==
    /\ recvd = <<0, 1, 0>>
    /\ Flatten(_read_buffer) = <<0>>
    /\ \E i \in DOMAIN queue :
           /\ queue[i].cb.kind = "read_until"
           /\ queue[i].cb.arg = <<<<0, 1>>>>
           /\ queue[i].args = <<<<0, 1>>>>

\* The step that schedules the completion callback of a streaming
\* read_bytes(n): its payload is empty, exactly n bytes were handed out
\* since the call, all of them to its streaming callback, and nothing for
\* the streaming callback is queued behind it.
C4_Completion ==
    \A i \in DOMAIN Added :
        LET c == Added[i].cb
        IN (c.kind = "read_bytes" /\ c.arg[2] # <<0>>) =>
               LET n == c.arg[1][1]
                   before == c.arg[3][1]
               IN /\ Added[i].args = <<<<>>>>
                  /\ c \notin scheduled
                  /\ Len(delivered') = before + n
                  /\ \A k \in before + 1..before + n :
                         /\ delivered'[k][2] = "streaming"
                         /\ delivered'[k][3] = c.arg[2][1]
                  /\ \A j \in i + 1..Len(Added) :
                         Added[j].cb.kind # "streaming"

\* C4: a streaming read_bytes(n) hands exactly the next n bytes of the
\* stream to the streaming callback and then schedules the completion
\* callback, once, with an empty payload; later bytes stay buffered.
C4_ReadBytesStreaming ==
    /\ [][C4_Completion]_vars
    /\ [](\A c \in twice : c.kind # "read_bytes")
    /\ []Conserved
    /\ []((socket # "None" /\ _read_bytes # None) =>
              _read_buffer_size < Val(_read_bytes))

\* C4 happens: a streaming read_bytes(2) got its bytes in two payloads,
\* its completion callback is queued, and a third byte is still buffered.
C4_Witness ==
    /\ Len(delivered) = 2
    /\ \A k \in 1..2 : delivered[k][2] = "streaming"
    /\ \E c \in scheduled : c.kind = "read_bytes" /\ c.arg[1] = <<2>>
                               /\ c.arg[2] # <<0>> /\ Queued(c)
    /\ ~\E i \in DOMAIN queue :
           queue[i].cb.kind = "streaming" /\ Len(queue[i].args[1]) = 2
    /\ Len(Flatten(_read_buffer)) = 1

\* C5 as stated: when EOF ends a read_until_close that came with a
\* streaming callback (no socket error, and fewer bytes than the buffer
\* holds), the completion callback is handed an empty payload.
C5_StreamedUntilClose ==
    \A i \in DOMAIN queue :
        (/\ queue[i].cb.kind = "read_until_close"
         /\ queue[i].cb.arg[2] # <<0>>
         /\ last.op = "_handle_events"
         /\ net_eof /\ net_in = <<>> /\ ~net_err
         /\ Len(recvd) < max_buffer_size)
            => queue[i].args = <<<<>>>>

\* The step that closes a stream with an until-close read pending: the
\* read callback is scheduled, for the first time, with all that the read
\* buffer held plus what this step received; the read buffer is empty and
\* the read is over.
C6_Closing ==
    (socket # "None" /\ socket' = "None" /\ _read_until_close) =>
        /\ Flatten(_read_buffer') = <<>>
        /\ _read_buffer_size' = 0
        /\ ~_read_until_close'
        /\ _read_callback' = None
        /\ Val(_read_callback) \in scheduled' \ scheduled
        /\ Val(_read_callback) \notin twice'
        /\ \E i \in DOMAIN Added :
               /\ Added[i].cb = Val(_read_callback)
               /\ Added[i].args =
                      <<Flatten(_read_buffer)
                            \o SubSeq(recvd', Len(recvd) + 1, Len(recvd'))>>

\* A read_until_close callback is scheduled only by a step that ends with
\* the stream closed.
C6_OnlyAtClose ==
    \A i \in DOMAIN Added :
        Added[i].cb.kind = "read_until_close" => socket' = "None"

C7_CloseOnClosed ==
    (socket = "None" /\ last'.op \in {"close", "io_loop.close"}) =>
        /\ UNCHANGED <<socket, _read_buffer, _write_buffer, _read_buffer_size,
                       _write_buffer_frozen, _read_delimiter, _read_regex,
                       _read_bytes, _read_until_close, _read_callback,
                       _streaming_callback, _write_callback,
                       _connect_callback, _connecting, _state>>
        /\ \/ /\ UNCHANGED <<_close_callback, _pending_callbacks>>
              /\ Added = <<>>
           \/ /\ _close_callback # None
              /\ _close_callback' = None
              /\ _pending_callbacks = 0
              /\ _pending_callbacks' = 1
              /\ Added = <<[fn |-> "wrapper", cb |-> Val(_close_callback),
                            args |-> <<>>]>>

\* C7: a close callback is scheduled (so invoked) at most once, whatever
\* is done to the stream; close() on a closed stream changes nothing but
\* to schedule the close callback that has not fired yet.
C7_CloseCallbackOnce ==
    /\ [](\A c \in twice : c.kind # "close")
    /\ [][C7_CloseOnClosed]_vars

\* C7 happens: close() was called again on a stream already closed, after
\* a close callback had been scheduled and another one installed.
C7_Witness ==
    /\ socket = "None"
    /\ last.op = "close"
    /\ ncbs["close"] >= 2
    /\ \E c \in scheduled : c.kind = "close"
    /\ _close_callback # None

\* C8 as stated: on a closed stream with nothing pending and nothing left
\* for the loop to run, no close callback that was registered while the
\* stream was open is still waiting to be scheduled.
C8_CloseCallbackNotLost ==
    ~(/\ socket = "None"
      /\ queue = <<>>
      /\ _pending_callbacks = 0
      /\ _close_callback # None
      /\ Val(_close_callback).arg = <<<<1>>>>)

ReadKinds == {"read_until_regex", "read_until", "read_bytes",
              "read_until_close", "streaming"}

\* Nothing but the loop's own calls of close is queued before a close
\* callback, and pending_callbacks counts the queued wrappers.
C9_NothingBefore ==
    /\ \A i, j \in DOMAIN queue :
           (i < j /\ queue[j].cb.kind = "close") => queue[i].fn = "close"
    /\ _pending_callbacks
           = Cardinality({i \in DOMAIN queue : queue[i].fn = "wrapper"})

\* A step schedules a close callback only if it ends with the socket
\* absent, and an event handler run queues no read callback behind it.
C9_AfterDrain ==
    \A i \in DOMAIN Added :
        Added[i].cb.kind = "close" =>
            /\ socket' = "None"
            /\ last'.op = "_handle_events" =>
                   \A j \in i + 1..Len(Added) :
                       Added[j].cb.kind \notin ReadKinds

\* C9: the close callback is scheduled only with the socket absent and no
\* callback pending, so no callback scheduled earlier is still to run; a
\* read callback produced by the socket drain that met EOF is queued
\* before the close callback.
C9_CloseCallbackLast ==
    /\ []C9_NothingBefore
    /\ [][C9_AfterDrain]_vars

\* C9 happens: one event found the delimiter and EOF; the stream is
\* closed, the read callback is queued and the close callback waits.
C9_Witness ==
    /\ socket = "None"
    /\ last.op = "_handle_events"
    /\ net_eof /\ ~net_err
    /\ _close_callback # None
    /\ _pending_callbacks = 1
    /\ queue # <<>>
    /\ queue[1].cb.kind = "read_until"

\* The reads that end when the buffer satisfies them.
BufferReads == {"read_until", "read_until_regex", "read_bytes"}

\* The step schedules the completion callback of the read it called.
Completed == \E i \in DOMAIN Added : Added[i].cb.kind = last'.op

\* C11 as stated: read_until, read_until_regex and read_bytes called on a
\* closed stream never have their completion callback scheduled.
C11_NoReadOnClosed ==
    [][(socket = "None" /\ last'.op \in BufferReads) => ~Completed]_vars

\* read_until, read_until_regex or read_bytes called on a closed stream:
\* the socket is not touched; the call fails the assertion, or schedules
\* its completion callback, or raises IOError; the bytes it hands out come
\* off the front of the read buffer; and it raises IOError only when what
\* is buffered does not satisfy it.
C11_ReadOnClosed ==
    (socket = "None" /\ last'.op \in BufferReads) =>
        /\ UNCHANGED <<socket, recvd, net_in, net_eof, _state>>
        /\ last'.exc \in {"None", "IOError", "AssertionError"}
        /\ Completed <=> last'.exc = "None"
        /\ Flatten(_read_buffer)
               = SubSeq(Payloads', Len(delivered) + 1, Len(delivered'))
                     \o Flatten(_read_buffer')
        /\ last'.exc = "IOError" =>
               /\ _read_callback' # None
               /\ last'.op = "read_until" =>
                      find(Flatten(_read_buffer'), Val(_read_delimiter')) = -1
               /\ last'.op = "read_until_regex" =>
                      search(Flatten(_read_buffer'), Val(_read_regex')) = -1
               /\ last'.op = "read_bytes" =>
                      Len(Flatten(_read_buffer')) < Val(_read_bytes')

\* C11, amended: on a closed stream read_until, read_until_regex and
\* read_bytes complete exactly when the bytes left in the read buffer
\* satisfy them, and raise IOError otherwise, without touching the socket.
C11_BufferedReadOnClosed == [][C11_ReadOnClosed]_vars

\* C11 happens: read_until was called on a stream closed earlier (the
\* peer has sent no EOF) and its callback is queued.
C11_Witness ==
    /\ socket = "None"
    /\ ~net_eof
    /\ last.op = "read_until"
    /\ last.exc = "None"
    /\ \E i \in DOMAIN queue :
           /\ queue[i].cb.kind = "read_until"
           /\ queue[i].cb.n = ncbs["read_until"]

Reads == BufferReads \cup {"read_until_close"}

\* The read modes that are armed.
Armed ==
    (IF _read_delimiter # None THEN {"until-delimiter"} ELSE {})
    \cup (IF _read_regex # None THEN {"until-regex"} ELSE {})
    \cup (IF _read_bytes # None THEN {"exact-count"} ELSE {})
    \cup (IF _read_until_close THEN {"until-close"} ELSE {})

\* A read called while a read callback is installed fails the assertion
\* and changes nothing of the stream, the loop or the socket.
C12_AlreadyReading ==
    (last'.op \in Reads /\ _read_callback # None) =>
        /\ last'.exc = "AssertionError"
        /\ UNCHANGED <<socket, _read_buffer, _write_buffer, _read_buffer_size,
                       _write_buffer_frozen, _read_delimiter, _read_regex,
                       _read_bytes, _read_until_close, _read_callback,
                       _streaming_callback, _write_callback, _close_callback,
                       _connect_callback, _connecting, _state,
                       _pending_callbacks, queue, net_in, recvd, delivered>>

\* C12: at most one of the four read modes is armed in every reachable
\* state, and only while a read callback is installed; a read called while
\* a read callback is installed fails the "Already reading" assertion and
\* leaves the armed mode, the callbacks and the buffers as they were.
C12_OneReadMode ==
    /\ [](Cardinality(Armed) <= 1 /\ (Armed # {} => _read_callback # None))
    /\ [][C12_AlreadyReading]_vars

\* C12 happens: read_bytes was refused while a read_until is pending.
C12_Witness ==
    /\ last.op = "read_bytes"
    /\ last.exc = "AssertionError"
    /\ Armed = {"until-delimiter"}
    /\ Val(_read_callback).kind = "read_until"

ConnectCallback(n) == [kind |-> "connect", n |-> n, arg |-> <<>>]

\* The connect call: when socket.connect fails the stream is closed and the
\* callback is not kept.
C13_ConnectCall ==
    (last'.op = "connect" /\ net_conn' = "failed") =>
        /\ socket' = "None"
        /\ _connect_callback' = None
        /\ scheduled' = scheduled

\* The event handler of a connecting stream.  With the connection made and
\* no error on the socket, connecting ends, the stream stays open and the
\* connect callback is scheduled; otherwise the stream is closed (or its
\* close is queued) and no connect callback is scheduled.
C13_HandleConnect ==
    (last'.op = "_handle_events" /\ _connecting) =>
        IF net_conn = "connected" /\ ~net_err
        THEN /\ ~_connecting'
             /\ socket' # "None"
             /\ _connect_callback # None =>
                    /\ _connect_callback' = None
                    /\ Val(_connect_callback) \in scheduled' \ scheduled
        ELSE /\ _connecting'
             /\ \/ socket' = "None"
                \/ \E i \in DOMAIN Added : Added[i].fn = "close"
             /\ \A c \in scheduled' \ scheduled : c.kind # "connect"

\* C13: after connect(addr, cb), cb is scheduled at most once, and only by
\* the event handler that finds the connection made with no socket error,
\* which also ends connecting; the loop does get there unless the stream
\* is closed first; when the connect call or the error check fails the
\* stream is closed and cb is never scheduled.
C13_Connect ==
    /\ [](\A c \in twice : c.kind # "connect")
    /\ [](_connecting => \A c \in scheduled : c.kind # "connect")
    /\ [][C13_ConnectCall /\ C13_HandleConnect]_vars
    /\ \A n \in 1..MaxCallbacks :
           (_connect_callback = Some(ConnectCallback(n)))
               ~> \/ ConnectCallback(n) \in scheduled /\ ~_connecting
                  \/ socket = "None"

\* C13 happens: the connection was made and the event handler has just
\* scheduled the connect callback.
C13_Witness ==
    /\ last.op = "_handle_events"
    /\ socket # "None"
    /\ ~_connecting
    /\ net_conn = "connected"
    /\ Queued(ConnectCallback(1))

\* The bytes a step receives from the socket.
Got == Len(recvd') - Len(recvd)

\* The event handler reads before it hands anything out: when what was
\* buffered and what it receives reach max_buffer_size, it closes the
\* stream.  An inline read on an open stream that leaves max_buffer_size
\* bytes or more in the buffer has closed the stream and raises IOError.
C14_Overflow ==
    /\ (last'.op = "_handle_events"
          /\ _read_buffer_size + Got >= max_buffer_size) => socket' = "None"
    /\ (last'.op \in BufferReads /\ socket # "None"
          /\ _read_buffer_size' >= max_buffer_size) =>
           /\ socket' = "None"
           /\ last'.exc = "IOError"

\* C14: a socket read that brings the read buffer's size to
\* max_buffer_size or more closes the stream (and the inline read raises
\* IOError), so an open stream always buffers fewer than max_buffer_size
\* bytes.
C14_BufferBounded ==
    /\ [](socket # "None" =>
              /\ _read_buffer_size < max_buffer_size
              /\ Len(Flatten(_read_buffer)) < max_buffer_size)
    /\ [][C14_Overflow]_vars

\* C14 happens: the event handler received the byte that filled the
\* buffer, and the stream is closed with max_buffer_size bytes buffered.
C14_Witness ==
    /\ last.op = "_handle_events"
    /\ socket = "None"
    /\ ~net_eof
    /\ _read_buffer_size >= max_buffer_size
    /\ Len(recvd) = max_buffer_size

\* What a step of an SSLIOStream does about the connect callback and the
\* handshake.  The connect callback is scheduled only by a step in which
\* the handshake ends, on a stream that has finished connecting.  An event
\* handler that returns with the handshake waiting to read has not ended
\* the handshake, and the events it registers include READ (unless it
\* queued the close of the stream instead).
C15_Handshake ==
    /\ \A c \in scheduled' \ scheduled :
           c.kind = "connect" =>
               /\ _ssl_accepting /\ ~_ssl_accepting'
               /\ ~_connecting' /\ net_conn = "connected"
               /\ _ssl_connect_callback = Some(c)
               /\ _ssl_connect_callback' = None
    /\ (last'.op = "_handle_events" /\ _handshake_reading'
          /\ socket' # "None") =>
           /\ _ssl_accepting'
           /\ _ssl_connect_callback' = _ssl_connect_callback
           /\ \/ READ \in Val(_state')
              \/ \E i \in DOMAIN Added : Added[i].fn = "close"

\* C15: on a TLS stream the connect callback is never scheduled while
\* ssl_accepting is true and never twice; a handshake that needs to read
\* leaves ssl_accepting true and READ in the events registered at the end
\* of the event handler; only a step that ends the handshake schedules the
\* connect callback.
C15_ConnectAfterHandshake ==
    /\ [](/\ _ssl_accepting => \A c \in scheduled : c.kind # "connect"
          /\ (_handshake_reading \/ _handshake_writing) => _ssl_accepting
          /\ \A c \in twice : c.kind # "connect")
    /\ [][C15_Handshake]_vars

\* C15 happens: the TCP connection is made, the handshake waits to read,
\* and the connect callback is still kept back.
C15_Witness ==
    /\ last.op = "_handle_events"
    /\ socket # "None"
    /\ ~_connecting /\ net_conn = "connected"
    /\ _ssl_accepting /\ _handshake_reading
    /\ _ssl_connect_callback = Some(ConnectCallback(1))
    /\ READ \in Val(_state)

\* A step of an SSLIOStream in its handshake: while the handshake is not
\* finished, and in any call of write or of a read, nothing is sent and
\* nothing is received, the write buffer loses nothing and the read
\* buffer gains nothing.
C16_NoData ==
    (_ssl_accepting /\ (_ssl_accepting' \/ last'.op \in Reads \cup {"write"}))
        => /\ wire' = wire
           /\ recvd' = recvd
           /\ _read_buffer' = _read_buffer
           /\ Len(_write_buffer') >= Len(_write_buffer)
           /\ SubSeq(Flatten(_write_buffer'), 1, Len(Flatten(_write_buffer)))
                  = Flatten(_write_buffer)

\* C16: while ssl_accepting is true no application data has gone to or
\* come from the transport, whatever was called and whatever events came:
\* nothing is on the wire, nothing was received, the read buffer is empty,
\* and no step shortens the write buffer.
C16_HandshakeOnly ==
    /\ [](_ssl_accepting =>
              wire = <<>> /\ recvd = <<>> /\ _read_buffer = <<>>)
    /\ [][C16_NoData]_vars

\* C16 happens: data waits in the socket and a read is pending, and the
\* READ event was answered by a handshake attempt alone.
C16_Witness ==
    /\ last.op = "_handle_events"
    /\ socket # "None"
    /\ _ssl_accepting /\ _handshake_reading
    /\ net_in # <<>>
    /\ _read_callback # None
    /\ recvd = <<>>

\* C17 as stated: when read_until, read_until_regex or read_bytes returns
\* on an open stream that was registered with the io_loop, without the
\* read having been satisfied, the registered events include READ.
C17_ReadRegistered ==
    [][(/\ last'.op \in BufferReads
        /\ last'.exc = "None"
        /\ ~Completed
        /\ socket # "None" /\ socket' # "None"
        /\ _state # None)
           => READ \in Val(_state')]_vars

Recomputed ==
    LET state == {ERROR}
                   \cup (IF _read_callback' # None THEN {READ} ELSE {})
                   \cup (IF _write_buffer' # <<>> THEN {WRITE} ELSE {})
    IN IF state = {ERROR} THEN {ERROR, READ} ELSE state

C19_ErrorRegistered ==
    /\ _state # None => (ERROR \in Val(_state) /\ socket # "None")
    /\ socket = "None" => _state = None

\* C19 happens: a registered stream had WRITE added to its events by a
\* write that could not be sent at once.
C19_Witness ==
    /\ last.op = "write"
    /\ socket # "None"
    /\ _write_buffer # <<>>
    /\ _state = Some({ERROR, READ, WRITE})

\* C20: the read buffer's size counter is the number of bytes in its
\* chunks, in every state (after reads, overflow, consumes and closes).
C20_SizeCounted == _read_buffer_size = Len(Flatten(_read_buffer))

\* C20 happens: part of what was received was consumed for a callback and
\* the rest stays in the buffer.
C20_Witness ==
    /\ delivered # <<>>
    /\ _read_buffer_size > 0
    /\ Len(delivered) + _read_buffer_size = Len(recvd)

BareClose == [fn |-> "close", cb |-> NoCallback, args |-> <<>>]

\* What the event handler does with the events and the stream as it is
\* now, against what it does without the ERROR event (rw) and what read
\* handling alone does (r).  If read handling closes the stream, nothing
\* else is done.  If the stream is open after read and write handling, an
\* ERROR event leaves it open and registered as it was and queues close
\* behind everything read and write handling queued.  No callback of write
\* handling is queued before one of a read that the buffer satisfied.
C21_Handled(events, blocked) ==
    \A c \in {cur} :
    \A h \in {_handle_events(c, events, blocked)} :
    \A rw \in {_handle_events(c, events \ {ERROR}, blocked)} :
    \A r \in {IF READ \in events THEN self_handle_read(c) ELSE c} :
        /\ r.socket = "None" =>
               /\ h.queue = r.queue
               /\ h.wire = wire /\ h.net_space = net_space
               /\ h._connecting = _connecting
        /\ (ERROR \in events /\ rw.socket # "None" /\ rw.exc = "None") =>
               /\ h.socket # "None" /\ h.exc = "None"
               /\ h.queue = Append(rw.queue, BareClose)
               /\ h._state = _state
               /\ h.wire = rw.wire /\ h.recvd = rw.recvd
               /\ h._read_buffer = rw._read_buffer
               /\ h._write_buffer = rw._write_buffer
        /\ ERROR \notin events =>
               \A i \in Len(queue) + 1..Len(h.queue) : h.queue[i] # BareClose
        /\ \A i, j \in Len(queue) + 1..Len(h.queue) :
               (i < j /\ h.queue[i].cb.kind \in {"write", "connect"}) =>
                   h.queue[j].cb.kind \notin BufferReads \cup {"streaming"}

\* C21: on an open stream, whatever events the handler is called with,
\* read handling comes before write handling and write handling before
\* error handling; write and error handling are skipped when read handling
\* closed the stream; an ERROR event on a stream still open after read and
\* write handling does not close it but queues close behind the callbacks
\* this call scheduled.
C21_ErrorDeferred ==
    (socket # "None" /\ _state # None) =>
        \A events \in SUBSET {READ, WRITE, ERROR}, blocked \in Blocked :
            C21_Handled(events, blocked)

\* C21 happens: with a read pending and its delimiter waiting in the
\* socket, READ and ERROR together queue the read callback and, behind it,
\* close, and the stream is still open.
C21_Witness ==
    /\ socket # "None" /\ _state # None
    /\ _read_callback # None
    /\ \E h \in {_handle_events(cur, {READ, ERROR}, "zero")} :
           /\ h.socket # "None"
           /\ Len(h.queue) = Len(queue) + 2
           /\ h.queue[Len(h.queue) - 1].cb.kind = "read_until"
           /\ h.queue[Len(h.queue)] = BareClose

\* Writing on a connected socket that was in use before the stream was
\* built around it: its send buffer may still be partly or wholly full.
InitBusy ==
    /\ socket = "sock"
    /\ _read_buffer = <<>>
    /\ _write_buffer = <<>>
    /\ _read_buffer_size = 0
    /\ _write_buffer_frozen = FALSE
    /\ _read_delimiter = None
    /\ _read_regex = None
    /\ _read_bytes = None
    /\ _read_until_close = FALSE
    /\ _read_callback = None
    /\ _streaming_callback = None
    /\ _write_callback = None
    /\ _close_callback = None
    /\ _connect_callback = None
    /\ _connecting = FALSE
    /\ _state = None
    /\ _pending_callbacks = 0
    /\ ssl = FALSE
    /\ _ssl_accepting = FALSE
    /\ _handshake_reading = FALSE
    /\ _handshake_writing = FALSE
    /\ _ssl_connect_callback = None
    /\ queue = <<>>
    /\ turn = 0
    /\ net_conn = "connected"
    /\ net_in = <<>>
    /\ net_eof = FALSE
    /\ net_err = FALSE
    /\ net_space \in 0..MaxSpace
    /\ wire = <<>>
    /\ recvd = <<>>
    /\ delivered = <<>>
    /\ nwritten = 0
    /\ ncbs = [k \in Kinds |-> 0]
    /\ scheduled = {}
    /\ twice = {}
    /\ last = [op |-> "__init__", exc |-> "None"]

NextFrozen ==
    \/ NetRoom
    \/ Write
    \/ Close
    \/ HandleEvents
    \/ RunCallback

SpecFrozen == InitBusy /\ [][NextFrozen]_vars

\* C22: a write that could not send everything leaves the buffer frozen;
\* while the buffer is frozen and no byte goes out, the buffer stays
\* frozen and its chunks stay as they are, later writes only adding chunks
\* behind them, so that the first chunk is the one the next send is given;
\* the flag is cleared only in a step that puts bytes on the wire.
C22_Frozen ==
    [][/\ (/\ last'.op = "write" /\ last'.exc = "None"
            /\ ~_connecting /\ socket' # "None"
            /\ _write_buffer' # <<>>) => _write_buffer_frozen'
       /\ (_write_buffer_frozen /\ wire' = wire) =>
              /\ _write_buffer_frozen'
              /\ Len(_write_buffer') >= Len(_write_buffer)
              /\ SubSeq(_write_buffer', 1, Len(_write_buffer))
                     = _write_buffer
       /\ (_write_buffer_frozen /\ ~_write_buffer_frozen') =>
              /\ Len(wire') > Len(wire)
              /\ Take(wire', Len(wire)) = wire]_vars

\* C22 happens: a write on a frozen buffer whose first chunk is short has
\* added a chunk behind it, the send failed again, and the two chunks are
\* not merged.
C22_Witness ==
    /\ last.op = "write" /\ last.exc = "None"
    /\ socket # "None"
    /\ _write_buffer_frozen
    /\ Len(_write_buffer) >= 2
    /\ Len(_write_buffer[1]) < WRITE_BUFFER_CHUNK_SIZE

(***************************************************************************)
(* _merge_prefix on its own: the write buffer starts as any deque of a few *)
(* short chunks, or as the deque of the doctest, and is merged with any    *)
(* size.                                                                   *)
(***************************************************************************)
MaxChunks == 3
MaxChunk == 2
MaxSize == 7

Chunks == UNION {[1..n -> 1..2] : n \in 0..MaxChunk}
Doctest == <<<<1, 2, 3>>, <<4, 5>>, <<6, 7, 8, 9>>, <<10>>>>
Deques == UNION {[1..n -> Chunks] : n \in 0..MaxChunks} \cup {Doctest}
Sizes == 0..MaxSize \cup {100}

InitMerge ==
    /\ socket = "sock"
    /\ _read_buffer = <<>>
    /\ _write_buffer \in Deques
    /\ _read_buffer_size = 0
    /\ _write_buffer_frozen = FALSE
    /\ _read_delimiter = None
    /\ _read_regex = None
    /\ _read_bytes = None
    /\ _read_until_close = FALSE
    /\ _read_callback = None
    /\ _streaming_callback = None
    /\ _write_callback = None
    /\ _close_callback = None
    /\ _connect_callback = None
    /\ _connecting = FALSE
    /\ _state = None
    /\ _pending_callbacks = 0
    /\ ssl = FALSE
    /\ _ssl_accepting = FALSE
    /\ _handshake_reading = FALSE
    /\ _handshake_writing = FALSE
    /\ _ssl_connect_callback = None
    /\ queue = <<>>
    /\ turn = 0
    /\ net_conn \in {"connected", "unconnected"}
    /\ net_in = <<>>
    /\ net_eof = FALSE
    /\ net_err = FALSE
    /\ net_space = MaxSpace
    /\ wire = <<>>
    /\ recvd = <<>>
    /\ delivered = <<>>
    /\ nwritten = 0
    /\ ncbs = [k \in Kinds |-> 0]
    /\ scheduled = {}
    /\ twice = {}
    /\ last = [op |-> "__init__", exc |-> "None"]

MergePrefix ==
    \E size \in Sizes :
        /\ _write_buffer' = _merge_prefix(_write_buffer, size)
        /\ last' = [op |-> "_merge_prefix", exc |-> "None", size |-> size]
        /\ UNCHANGED <<ssl_vars, socket, _read_buffer, _read_buffer_size,
                       _write_buffer_frozen, _read_delimiter, _read_regex,
                       _read_bytes, _read_until_close, _read_callback,
                       _streaming_callback, _write_callback, _close_callback,
                       _connect_callback, _connecting, _state,
                       _pending_callbacks, queue, turn, net_conn, net_in,
                       net_eof, net_err, net_space, wire, recvd, delivered,
                       nwritten, ncbs, scheduled, twice>>

SpecMerge == InitMerge /\ [][MergePrefix]_vars

\* The first chunk holds the first size bytes, or all there are.
Merged(size) ==
    /\ Flatten(_write_buffer') = Flatten(_write_buffer)
    /\ _write_buffer' # <<>>
    /\ _write_buffer'[1] = Take(Flatten(_write_buffer), size)
    /\ Flatten(Tail(_write_buffer')) = Drop(Flatten(_write_buffer), size)

C24_ReadsConserve ==
    [][/\ recvd' = Payloads' \o Flatten(_read_buffer')
       /\ Len(Payloads') >= Len(Payloads)
       /\ SubSeq(Payloads', 1, Len(Payloads)) = Payloads
       /\ Len(recvd') >= Len(recvd)
       /\ SubSeq(recvd', 1, Len(recvd)) = recvd]_vars

\* C24 happens: three bytes were received; a read_bytes callback got the
\* first, the close of the stream gave the second to an until-close
\* callback scheduled after it, and nothing is left in the buffer.
C24_Witness ==
    /\ socket = "None"
    /\ Len(recvd) = MaxRecv
    /\ \E i, j \in DOMAIN delivered :
           /\ i < j
           /\ delivered[i][2] = "read_bytes"
           /\ delivered[j][2] = "read_until_close"
    /\ Payloads \o Flatten(_read_buffer) = recvd

\* C25: no step of the stream asks the transport for anything once the
\* socket is absent.  A send or recv on an absent socket shows as the
\* AttributeError it raises; in particular the event handler that closed
\* the stream for a failed connect does not end with it.
C25_NoTransportOnClosed ==
    ~(/\ last.exc = "AttributeError"
      /\ socket = "None")

====
